---- MODULE Spec2Model ----
(***************************************************************************)
(* Model of telegram-casebot-sheets/index.js: the per-user question flow   *)
(* (states map, /start, /new, /cancel, /whoami, /export, text handler) and *)
(* the Google Sheets persistence (ensureSheetAndHeader,                    *)
(* appendToGoogleSheet).                                                   *)
(*                                                                         *)
(* Texts are sequences of characters, one string per code point. The       *)
(* module is ASCII only, so an Arabic letter is written as its name        *)
(* ("NUN" for U+0646, ...) and an Arabic phrase of a prompt or a reply as  *)
(* one token whose name says what it is.                                   *)
(*                                                                         *)
(* Handlers are async functions: a handler runs without interruption up to *)
(* its next await of a Google Sheets call or of the final ctx.reply, and   *)
(* other handlers (of any identity) run while it is suspended.             *)
(***************************************************************************)
EXTENDS Integers, Sequences, FiniteSets, TLC

\* ------------------------------------------------------------- bounds

\* Number of catalog questions the model asks (a window of QUESTIONS).
NumQ == 2

\* ------------------------------------------------------------- characters

\* Arabic letters, by name.
NUN == "NUN"
AIN == "AIN"
MIM == "MIM"
ALEF == "ALEF"
ALEF_HAMZA == "ALEF_HAMZA"
YA == "YA"
WAW == "WAW"
HA == "HA"
LAM == "LAM"
HAMZA == "HAMZA"

\* String.prototype.trim removes these from both ends.
WhiteSpace == {" ", "\t", "\n"}

\* String.prototype.toLowerCase on one character (letters the model uses).
LowerChar(c) ==
  CASE c = "Y" -> "y"
    [] c = "E" -> "e"
    [] c = "S" -> "s"
    [] c = "N" -> "n"
    [] c = "O" -> "o"
    [] c = "A" -> "a"
    [] c = "L" -> "l"
    [] c = "M" -> "m"
    [] OTHER -> c

toLowerCase(s) == [i \in DOMAIN s |-> LowerChar(s[i])]

RECURSIVE trimStart(_)
trimStart(s) ==
  IF s # <<>> /\ Head(s) \in WhiteSpace THEN trimStart(Tail(s)) ELSE s

RECURSIVE trimEnd(_)
trimEnd(s) ==
  IF s # <<>> /\ s[Len(s)] \in WhiteSpace
  THEN trimEnd(SubSeq(s, 1, Len(s) - 1))
  ELSE s

trim(s) == trimEnd(trimStart(s))

\* ------------------------------------------------------------- catalog

FreeText == "text"
YesNo == "yesno"

\* A prompt is the Arabic phrase (one token) followed by the colon it ends with.
Q(key, type) == [key |-> key, prompt |-> <<"prompt_" \o key, ":">>, type |-> type]

\* The 18 questions of index.js, in order.
CATALOG ==
  << Q("head_of_household", FreeText),
     Q("births", FreeText),
     Q("phone", FreeText),
     Q("health_status", FreeText),
     Q("wife_name", FreeText),
     Q("wife_phone", FreeText),
     Q("wife_birthdate", FreeText),
     Q("wife_health_status", FreeText),
     Q("children_count", FreeText),
     Q("children_names_ages", FreeText),
     Q("current_location", FreeText),
     Q("birthplace", FreeText),
     Q("house_damaged", YesNo),
     Q("martyrs_in_family", YesNo),
     Q("martyrs_names", FreeText),
     Q("missing_names", FreeText),
     Q("injured_names_status", FreeText),
     Q("extra_notes", FreeText) >>

\* The questions the model asks: NumQ consecutive questions of the catalog,
\* starting at the last free-text question before the two yes/no questions.
QUESTIONS == SubSeq(CATALOG, 12, 11 + NumQ)

N == Len(QUESTIONS)

Keys(k) == {QUESTIONS[j].key : j \in 1..k}

\* ------------------------------------------------------------- validator

YES == <<NUN, AIN, MIM>>
NO == <<LAM, ALEF>>

yes ==
  { <<NUN, AIN, MIM>>, <<ALEF, YA>>, <<ALEF_HAMZA, YA, WAW, HA>>,
    <<ALEF, YA, WAW, HA>>, <<"n", "a", "3", "a", "m">>, <<"n", "a", "a", "m">>,
    <<"y", "e", "s">>, <<"y">> }

no ==
  { <<LAM, ALEF>>, <<LAM, ALEF, HAMZA>>, <<"l", "a">>, <<"n", "o">>, <<"n">> }

\* The three results of normalizeYesNo: true, false, null.
true == "true"
false == "false"
null == "null"

\* A validator that compares the input as it is.
normalizeYesNo_Exact(input) ==
  IF input \in yes THEN true
  ELSE IF input \in no THEN false
  ELSE null

normalizeYesNo(input) ==
  LET s == toLowerCase(trim(input))
  IN  IF s \in yes THEN true
      ELSE IF s \in no THEN false
      ELSE null

\* ------------------------------------------------------------- identities

\* The Telegram users of the model. User 1 has a username, user 2 has none
\* (ctx.from.username is undefined).
Identities == {1, 2}

From(id) ==
  IF id = 1 THEN [id |-> id, username |-> <<"a", "l", "i">>] ELSE [id |-> id]

\* Message texts the users send. Both send a word that is in neither token
\* set; user 1 also sends " Y " (to be trimmed and case-folded), user 2 the
\* canonical negative.
TextsOf(id) ==
  IF id = 1
  THEN { <<" ", "Y", " ">>, <<"m", "a", "y", "b", "e">> }
  ELSE { <<LAM, ALEF>>, <<"m", "a", "y", "b", "e">> }

\* Values of ALLOWED_USER_IDS after parsing: no list, or user 1 only.
AllowLists == { <<>>, <<1>> }

\* ------------------------------------------------------------- replies

\* out: a continuation that sent nothing; a handler of an update of user id
\* that returned without a reply; a reply; an exception the handler threw.
NoReply == [kind |-> "none", to |-> 0, msg |-> <<>>]
Silent(id) == [kind |-> "none", to |-> id, msg |-> <<>>]
Reply(id, msg) == [kind |-> "reply", to |-> id, msg |-> msg]
Threw(id, what) == [kind |-> "throw", to |-> id, msg |-> <<what>>]

\* out: the text handler of an update of user id returned after its
\* states.delete.
Done(id) == [kind |-> "done", to |-> id, msg |-> <<>>]

IntroPrompt == <<"intro_new_case", "\n", "\n">> \o QUESTIONS[1].prompt
NotAllowedToAdd == <<"not_authorized_to_add_cases">>
NotAllowed == <<"not_authorized">>
Canceled == <<"case_entry_canceled">>
NothingToCancel == <<"no_case_in_progress_to_cancel">>
WhoamiText(id) == <<"your_telegram_id_is", ToString(id)>>
ExportText == <<"sheet_link", "GOOGLE_SHEETS_ID">>
RetryYesNo == <<"please_answer_yes_or_no_only">>
SavedOk == <<"saved_to_google_sheets">>
SaveFailed == <<"error_saving_try_again">>

\* ------------------------------------------------------------- state

VARIABLES
  allowedIds,  \* the parsed allow-list (fixed at startup)
  states,      \* the Map userId -> { index, answers }
  tasks,       \* text handlers suspended in appendToGoogleSheet or after it
  tabExists,   \* the spreadsheet has a tab titled SHEET_TAB
  rows,        \* the rows of that tab, top to bottom
  out,         \* what the step taken last sent to Telegram
  probe        \* two ensureSheetAndHeader calls in a row: which one runs, and
               \* the spreadsheet before the first and before the second

vars == <<allowedIds, states, tasks, tabExists, rows, out, probe>>

\* probe while no pair of ensureSheetAndHeader calls is running.
NoProbe == [call |-> 0, before |-> [tabExists |-> FALSE, rows |-> <<>>],
            between |-> [tabExists |-> FALSE, rows |-> <<>>]]

\* ------------------------------------------------------------- sessions

\* states.has / states.get / states.set / states.delete of the Map.
Has(id) == id \in DOMAIN states
MapSet(m, id, v) == [k \in DOMAIN m \cup {id} |-> IF k = id THEN v ELSE m[k]]
\* A delete that clears the Map.
MapDelete_All(m, id) == [k \in {} |-> m[k]]

MapDelete(m, id) == [k \in DOMAIN m \ {id} |-> m[k]]

\* A suspended handler holds a reference to the session object it read from
\* the Map. alias = TRUE: that object is still the one the Map holds under
\* the handler's user, so obj is not used and is NoObject. alias = FALSE: the
\* Map's entry was replaced or deleted since, and obj is the handler's object.
NoObject ==
  [index |-> 0 - 1, answers |-> [telegram_id |-> 0, username |-> <<>>], sent |-> <<>>]

\* set or delete under id unlinks the object from the Map: the handlers that
\* hold it keep it.
Detach(id) ==
  { IF t.id = id /\ t.alias
    THEN [t EXCEPT !.alias = FALSE, !.obj = states[id]]
    ELSE t : t \in tasks }

\* The object a suspended handler holds (its variable state).
StateOf(t) == IF t.alias THEN states[t.id] ELSE t.obj

\* ctx.from.username || ''
UsernameOrEmpty(from) ==
  IF "username" \in DOMAIN from /\ from.username # <<>> THEN from.username ELSE <<>>

\* The object startFlow stores. sent is a history field, not a property of
\* the object: the message texts accepted as answers so far, as received.
NewSession(id) ==
  [index |-> 0,
   answers |-> [telegram_id |-> From(id).id, username |-> UsernameOrEmpty(From(id))],
   sent |-> <<>>]

\* A gate that lets everyone through.
isAllowed_Everyone(id) == TRUE

isAllowed(id) ==
  IF Len(allowedIds) = 0 THEN TRUE
  ELSE \E i \in 1..Len(allowedIds) : allowedIds[i] = id

\* ------------------------------------------------------------- spreadsheet

\* q.prompt.replace(/:$/, '')
StripColon(p) ==
  IF p # <<>> /\ p[Len(p)] = ":" THEN SubSeq(p, 1, Len(p) - 1) ELSE p

\* The header row ensureSheetAndHeader writes. A row is a sequence of cells.
headers ==
  << <<"label_datetime_utc">>, <<"label_telegram_id">>, <<"label_username">> >>
  \o [i \in 1..N |-> StripColon(QUESTIONS[i].prompt)]

\* data[q.key] || ''
CellOf(data, key) ==
  IF key \in DOMAIN data /\ data[key] # <<>> THEN data[key] ELSE <<>>

\* The row appendToGoogleSheet builds from the answers.
RowOf(data) ==
  << <<"iso_now">>, <<ToString(data.telegram_id)>>, data.username >>
  \o [i \in 1..N |-> CellOf(data, QUESTIONS[i].key)]

\* spreadsheets.values.get of SHEET_TAB!1:1: the response carries no values
\* when row 1 is empty.
HeaderRes(rs) ==
  IF rs # <<>> /\ rs[1] # <<>>
  THEN [range |-> <<"1:1">>, values |-> <<rs[1]>>]
  ELSE [range |-> <<"1:1">>]

\* A header check that never finds one.
hasHeader_Never(res) == FALSE

hasHeader(res) ==
  /\ "values" \in DOMAIN res
  /\ Len(res.values) > 0
  /\ Len(res.values[1]) > 0

\* An update that writes the given row over the last row.
UpdateA1_LastRow(rs, row) ==
  IF rs = <<>> THEN <<row>> ELSE [rs EXCEPT ![Len(rs)] = row]

\* spreadsheets.values.update at SHEET_TAB!A1: row 1 becomes the given row.
UpdateA1(rs, row) == IF rs = <<>> THEN <<row>> ELSE [rs EXCEPT ![1] = row]

\* An append that writes over the last row.
AppendRow_Overwrites(rs, row) ==
  IF rs = <<>> THEN <<row>> ELSE [rs EXCEPT ![Len(rs)] = row]

\* spreadsheets.values.append with INSERT_ROWS: a new row after the last one.
AppendRow(rs, row) == Append(rs, row)

\* ------------------------------------------------------------- handlers

\* What a handler does to the Map and to the suspended handlers, and what it
\* sends, as a function of the state it runs in.
Same(o) == [states |-> states, tasks |-> tasks, out |-> o]

\* A begin that keeps the session a user already has.
startFlow_KeepsExisting(id) ==
  [states |-> IF Has(id) THEN states ELSE MapSet(states, id, NewSession(id)),
   tasks |-> tasks,
   out |-> Reply(id, IntroPrompt)]

startFlow(id) ==
  [states |-> MapSet(states, id, NewSession(id)),
   tasks |-> IF Has(id) THEN Detach(id) ELSE tasks,
   out |-> Reply(id, IntroPrompt)]

\* bot.start
onStart(id) ==
  IF ~isAllowed(id) THEN Same(Reply(id, NotAllowedToAdd)) ELSE startFlow(id)

\* bot.command('new')
onNew(id) ==
  IF ~isAllowed(id) THEN Same(Reply(id, NotAllowedToAdd)) ELSE startFlow(id)

\* A cancel that answers without deleting.
onCancel_KeepsSession(id) ==
  Same(IF Has(id) THEN Reply(id, Canceled) ELSE Reply(id, NothingToCancel))

\* A cancel that also drops the user's suspended handlers.
onCancel_Aborts(id) ==
  IF Has(id)
  THEN [states |-> MapDelete(states, id),
        tasks |-> {t \in tasks : t.id # id},
        out |-> Reply(id, Canceled)]
  ELSE Same(Reply(id, NothingToCancel))

\* bot.command('cancel')
onCancel(id) ==
  IF Has(id)
  THEN [states |-> MapDelete(states, id),
        tasks |-> Detach(id),
        out |-> Reply(id, Canceled)]
  ELSE Same(Reply(id, NothingToCancel))

\* bot.command('whoami')
onWhoami(id) == Same(Reply(id, WhoamiText(id)))

\* bot.command('export')
onExport(id) ==
  IF ~isAllowed(id) THEN Same(Reply(id, NotAllowed)) ELSE Same(Reply(id, ExportText))

\* A handler that skips the validation.
Rejects_Never(question, text) == FALSE

\* question?.type === 'yesno' and normalizeYesNo(text) === null
Rejects(question, text) ==
  question.type = YesNo /\ normalizeYesNo(text) = null

\* The value stored for an accepted text.
Stored(question, text) ==
  IF question.type = YesNo
  THEN (IF normalizeYesNo(text) = true THEN YES ELSE NO)
  ELSE text

\* A handler that moves on without storing the answer.
Advance_NoStore(state, question, text, raw) ==
  [index |-> state.index + 1,
   answers |-> state.answers,
   sent |-> Append(state.sent, raw)]

\* state.answers[question.key] = text; state.index += 1
Advance(state, question, text, raw) ==
  [index |-> state.index + 1,
   answers |-> MapSet(state.answers, question.key, text),
   sent |-> Append(state.sent, raw)]

\* Two invocations of the handler are two handlers, however alike: n tells
\* the suspended handlers of one user apart, the oldest being 1.
InvocationNo(id) == Cardinality({t \in tasks : t.id = id}) + 1

\* The handlers left when t has returned.
Without(ts, t) ==
  { IF u.id = t.id /\ u.n > t.n THEN [u EXCEPT !.n = u.n - 1] ELSE u :
      u \in { v \in ts : v.n # t.n \/ v.id # t.id } }

\* The handler just called appendToGoogleSheet(state.answers), which awaits
\* sheets.spreadsheets.get. row, err, wrote and sent record what the handler
\* has built, caught, appended and replied so far.
NewTask(id) ==
  [id |-> id, n |-> InvocationNo(id), pc |-> "meta", alias |-> TRUE, obj |-> NoObject,
   row |-> <<>>, err |-> FALSE, wrote |-> FALSE, sent |-> "none"]

\* A handler that starts a flow for a text outside one.
NoSession_StartsFlow(id) == startFlow(id)

\* if (!state) return;
NoSession(id) == Same(Silent(id))

\* bot.on('text')
onText(id, raw) ==
  IF ~Has(id) THEN NoSession(id)
  ELSE
    LET state == states[id]
        text == trim(raw)
    IN  IF state.index >= N
        THEN \* question is undefined: question.key throws a TypeError
             Same(Threw(id, "TypeError"))
        ELSE
          LET question == QUESTIONS[state.index + 1]
          IN  IF Rejects(question, text)
              THEN Same(Reply(id, RetryYesNo))
              ELSE
                LET next == Advance(state, question, Stored(question, text), raw)
                IN  IF next.index < N
                    THEN [states |-> [states EXCEPT ![id] = next],
                          tasks |-> tasks,
                          out |-> Reply(id, QUESTIONS[next.index + 1].prompt)]
                    ELSE [states |-> [states EXCEPT ![id] = next],
                          tasks |-> tasks \cup {NewTask(id)},
                          out |-> Silent(id)]

\* ------------------------------------------------------------- completion

\* One step of a suspended handler t: the call it awaits returns (ok) or
\* throws, and the handler runs on to its next await. The result is the
\* handler after the step, the spreadsheet after the call, and what was sent.
\* A call that throws has changed nothing in the spreadsheet.
After(t2, tab, rs, o) == [task |-> t2, tabExists |-> tab, rows |-> rs, out |-> o]

\* Any call of the try block threw: the catch block awaits the failure reply.
Caught(t) == [t EXCEPT !.pc = "replyFail", !.err = TRUE]

\* An appendToGoogleSheet that builds the row from what the Map holds for the
\* user when ensureSheetAndHeader has returned.
Ensured_FromStore(t) ==
  [t EXCEPT !.pc = "append",
            !.row = RowOf((IF Has(t.id) THEN states[t.id] ELSE StateOf(t)).answers)]

\* ensureSheetAndHeader returned: appendToGoogleSheet builds the row and
\* awaits values.append.
Ensured(t) == [t EXCEPT !.pc = "append", !.row = RowOf(StateOf(t).answers)]

\* await sheets.spreadsheets.get; existing = the tab titled SHEET_TAB.
sheetsGet(t, ok) ==
  After(IF ~ok THEN Caught(t)
        ELSE IF ~tabExists THEN [t EXCEPT !.pc = "addSheet"]
        ELSE [t EXCEPT !.pc = "headerGet"],
        tabExists, rows, NoReply)

\* A create request whose rejection is swallowed.
addSheet_IgnoresDuplicate(t, ok) ==
  IF ok
  THEN After([t EXCEPT !.pc = "headerGet"], TRUE, rows, NoReply)
  ELSE After(Caught(t), tabExists, rows, NoReply)

\* await sheets.spreadsheets.batchUpdate({ addSheet }): the service rejects a
\* second tab of the same title.
addSheet(t, ok) ==
  IF ok /\ ~tabExists
  THEN After([t EXCEPT !.pc = "headerGet"], TRUE, rows, NoReply)
  ELSE After(Caught(t), tabExists, rows, NoReply)

\* await sheets.spreadsheets.values.get of row 1; hasHeader decides.
headerGet(t, ok) ==
  After(IF ~(ok /\ tabExists) THEN Caught(t)
        ELSE IF ~hasHeader(HeaderRes(rows)) THEN [t EXCEPT !.pc = "headerUpdate"]
        ELSE Ensured(t),
        tabExists, rows, NoReply)

\* await sheets.spreadsheets.values.update of A1 with the header row.
headerUpdate(t, ok) ==
  IF ok /\ tabExists
  THEN After(Ensured(t), tabExists, UpdateA1(rows, headers), NoReply)
  ELSE After(Caught(t), tabExists, rows, NoReply)

\* await sheets.spreadsheets.values.append; then the try block awaits the
\* success reply.
valuesAppend(t, ok) ==
  IF ok /\ tabExists
  THEN After([t EXCEPT !.pc = "replyOk", !.wrote = TRUE], tabExists,
             AppendRow(rows, t.row), NoReply)
  ELSE After(Caught(t), tabExists, rows, NoReply)

\* A catch block that reports success.
OutcomeOf_AlwaysOk(t) == "ok"

\* The try block replies success, the catch block failure.
OutcomeOf(t) == IF t.pc = "replyOk" THEN "ok" ELSE "fail"

\* await ctx.reply of the outcome; states.delete is next.
replyOutcome(t) ==
  After([t EXCEPT !.pc = "delete", !.sent = OutcomeOf(t)], tabExists, rows,
        Reply(t.id, IF OutcomeOf(t) = "ok" THEN SavedOk ELSE SaveFailed))

\* A handler that returns without the delete.
onDelete_Skipped(t) ==
  [states |-> states, tasks |-> Without(tasks, t), out |-> Done(t.id)]

\* states.delete(ctx.from.id), and the handler returns.
onDelete(t) ==
  [states |-> IF Has(t.id) THEN MapDelete(states, t.id) ELSE states,
   tasks |-> Without(IF Has(t.id) THEN Detach(t.id) ELSE tasks, t),
   out |-> Done(t.id)]

\* ------------------------------------------------------------- actions

Handle(r) ==
  /\ states' = r.states
  /\ tasks' = r.tasks
  /\ out' = r.out
  /\ UNCHANGED <<allowedIds, tabExists, rows, probe>>

Step(t, r) ==
  /\ tasks' = (tasks \ {t}) \cup {r.task}
  /\ tabExists' = r.tabExists
  /\ rows' = r.rows
  /\ out' = r.out
  /\ UNCHANGED <<allowedIds, states, probe>>

\* The model follows as many completed submissions (in flight or appended)
\* as there are users.
MaxRows == Cardinality(Identities)

DataRows == Cardinality({i \in 1..Len(rows) : rows[i] # headers})

Room == Cardinality(tasks) + DataRows < MaxRows

Start(id) == Handle(onStart(id))

New(id) == Handle(onNew(id))

Cancel(id) == Handle(onCancel(id))

Whoami(id) == Handle(onWhoami(id))

Export(id) == Handle(onExport(id))

Text(id, raw) ==
  /\ onText(id, raw).tasks # tasks => Room
  /\ Handle(onText(id, raw))

SheetsGet(t, ok) == t.pc = "meta" /\ Step(t, sheetsGet(t, ok))

AddSheet(t, ok) == t.pc = "addSheet" /\ Step(t, addSheet(t, ok))

HeaderGet(t, ok) == t.pc = "headerGet" /\ Step(t, headerGet(t, ok))

HeaderUpdate(t, ok) == t.pc = "headerUpdate" /\ Step(t, headerUpdate(t, ok))

ValuesAppend(t, ok) == t.pc = "append" /\ Step(t, valuesAppend(t, ok))

ReplyOutcome(t) == t.pc \in {"replyOk", "replyFail"} /\ Step(t, replyOutcome(t))

Delete(t) == t.pc = "delete" /\ Handle(onDelete(t))

\* ------------------------------------------------------------- specification

Init ==
  /\ allowedIds \in AllowLists
  /\ states = [k \in {} |-> NewSession(1)]
  /\ tasks = {}
  /\ tabExists \in BOOLEAN
  /\ rows = <<>>
  /\ out = NoReply
  /\ probe = NoProbe

\* A step of the suspended handler t.
TaskStep(t) ==
  \/ \E ok \in BOOLEAN : SheetsGet(t, ok)
  \/ \E ok \in BOOLEAN : AddSheet(t, ok)
  \/ \E ok \in BOOLEAN : HeaderGet(t, ok)
  \/ \E ok \in BOOLEAN : HeaderUpdate(t, ok)
  \/ \E ok \in BOOLEAN : ValuesAppend(t, ok)
  \/ ReplyOutcome(t)
  \/ Delete(t)

Next ==
  \/ \E id \in Identities : Start(id)
  \/ \E id \in Identities : New(id)
  \/ \E id \in Identities : Cancel(id)
  \/ \E id \in Identities : Whoami(id)
  \/ \E id \in Identities : Export(id)
  \/ \E id \in Identities : \E raw \in TextsOf(id) : Text(id, raw)
  \/ \E t \in tasks, ok \in BOOLEAN : SheetsGet(t, ok)
  \/ \E t \in tasks, ok \in BOOLEAN : AddSheet(t, ok)
  \/ \E t \in tasks, ok \in BOOLEAN : HeaderGet(t, ok)
  \/ \E t \in tasks, ok \in BOOLEAN : HeaderUpdate(t, ok)
  \/ \E t \in tasks, ok \in BOOLEAN : ValuesAppend(t, ok)
  \/ \E t \in tasks : ReplyOutcome(t)
  \/ \E t \in tasks : Delete(t)

Spec == Init /\ [][Next]_vars

\* Every remote call and every reply a handler awaits settles: it returns or
\* it throws, and the handler runs on.
Settles == \A id \in Identities : WF_vars(\E t \in tasks : t.id = id /\ TaskStep(t))

\* The bot started with ALLOWED_USER_IDS=1.
FairInit == Init /\ allowedIds = <<1>>

FairSpec == FairInit /\ [][Next]_vars /\ Settles

\* ------------------------------------------------------------- ensure twice

\* ensureSheetAndHeader called twice in a row by one caller, nobody else at
\* the spreadsheet:  await ensureSheetAndHeader(sheets) and, when it has
\* returned, await ensureSheetAndHeader(sheets) again.

Sheet == [tabExists |-> tabExists, rows |-> rows]

\* A first row somebody else wrote.
ForeignHeader == << <<"name">>, <<"phone">> >>

\* A session with every question answered, as the text handler leaves it.
RECURSIVE Answered(_, _)
Answered(id, k) ==
  IF k = 0 THEN NewSession(id)
  ELSE LET state == Answered(id, k - 1)
           raw == CHOOSE r \in TextsOf(id) : ~Rejects(QUESTIONS[k], trim(r))
       IN  Advance(state, QUESTIONS[k], Stored(QUESTIONS[k], trim(raw)), raw)

\* The tabs the first call may find: none; or one whose row 1 is absent,
\* empty, the header or a foreign header, above no row or one data row.
SheetsBefore ==
  { [tabExists |-> FALSE, rows |-> <<>>], [tabExists |-> TRUE, rows |-> <<>>] }
  \cup { [tabExists |-> TRUE, rows |-> <<first>> \o rest] :
           first \in { headers, ForeignHeader },
           rest \in { <<>> } \cup { <<RowOf(Answered(id, N).answers)>> : id \in Identities } }
  \cup { [tabExists |-> TRUE, rows |-> << <<>>, RowOf(Answered(id, N).answers) >>] :
           id \in Identities }

EnsureInit ==
  /\ allowedIds = <<>>
  /\ \E id \in Identities :
       /\ states = MapSet([k \in {} |-> NewSession(1)], id, Answered(id, N))
       /\ tasks = { [id |-> id, n |-> 1, pc |-> "meta", alias |-> TRUE, obj |-> NoObject,
                     row |-> <<>>, err |-> FALSE, wrote |-> FALSE, sent |-> "none"] }
  /\ \E sheet \in SheetsBefore :
       /\ tabExists = sheet.tabExists
       /\ rows = sheet.rows
       /\ probe = [call |-> 1, before |-> sheet, between |-> sheet]
  /\ out = NoReply

\* One await of the running call settles.
EnsureStep(t, r) ==
  /\ tasks' = (tasks \ {t}) \cup {r.task}
  /\ tabExists' = r.tabExists
  /\ rows' = r.rows
  /\ out' = r.out
  /\ UNCHANGED <<allowedIds, states, probe>>

EnsureSheetsGet(t, ok) == t.pc = "meta" /\ EnsureStep(t, sheetsGet(t, ok))

EnsureAddSheet(t, ok) == t.pc = "addSheet" /\ EnsureStep(t, addSheet(t, ok))

EnsureHeaderGet(t, ok) == t.pc = "headerGet" /\ EnsureStep(t, headerGet(t, ok))

EnsureHeaderUpdate(t, ok) == t.pc = "headerUpdate" /\ EnsureStep(t, headerUpdate(t, ok))

\* The first call returned: the caller calls again.
EnsureAgain(t) ==
  /\ t.pc = "append"
  /\ probe.call = 1
  /\ tasks' = (tasks \ {t}) \cup { [t EXCEPT !.pc = "meta", !.row = <<>>] }
  /\ probe' = [probe EXCEPT !.call = 2, !.between = Sheet]
  /\ UNCHANGED <<allowedIds, states, tabExists, rows, out>>

EnsureNext ==
  \/ \E t \in tasks, ok \in BOOLEAN : EnsureSheetsGet(t, ok)
  \/ \E t \in tasks, ok \in BOOLEAN : EnsureAddSheet(t, ok)
  \/ \E t \in tasks, ok \in BOOLEAN : EnsureHeaderGet(t, ok)
  \/ \E t \in tasks, ok \in BOOLEAN : EnsureHeaderUpdate(t, ok)
  \/ \E t \in tasks : EnsureAgain(t)

EnsureSpec == EnsureInit /\ [][EnsureNext]_vars

\* ------------------------------------------------------------- validator inputs

\* The text handler at a yes/no question, given every text of Inputs.

\* String.prototype.toUpperCase on one character: what a user who types in
\* capitals sends.
UpperChar(c) ==
  CASE c = "y" -> "Y"
    [] c = "e" -> "E"
    [] c = "s" -> "S"
    [] c = "n" -> "N"
    [] c = "o" -> "O"
    [] c = "a" -> "A"
    [] c = "l" -> "L"
    [] c = "m" -> "M"
    [] OTHER -> c

toUpperCase(s) == [i \in DOMAIN s |-> UpperChar(s[i])]

\* A text with white space around it.
Padded(s) == { s, <<" ">> \o s, s \o <<" ">>, <<"\t">> \o s \o <<"\n">> }

\* The ways the model's users type a token: in small or capital letters,
\* with or without white space around it.
Forms(token) == Padded(token) \cup Padded(toUpperCase(token))

\* Texts that are no token: other words, the empty text, white space only,
\* a part of a token, a token with something inside or after it.
Others ==
  { <<"m", "a", "y", "b", "e">>, <<>>, <<" ">>, <<"y", "e">>,
    <<"y", " ", "e", "s">>, <<"n", "o", "n">>, <<NUN, AIN>>, <<LAM, ALEF, ".">> }

Inputs == UNION { Forms(token) : token \in yes \cup no } \cup Others

\* The position of the first yes/no question.
FirstYesNo ==
  CHOOSE k \in 1..N :
    /\ QUESTIONS[k].type = YesNo
    /\ \A j \in 1..(k - 1) : QUESTIONS[j].type # YesNo

\* A user has answered the questions before the first yes/no question.
ValidatorInit ==
  /\ allowedIds = <<>>
  /\ \E id \in Identities :
       states = MapSet([k \in {} |-> NewSession(1)], id, Answered(id, FirstYesNo - 1))
  /\ tasks = {}
  /\ tabExists = TRUE
  /\ rows = <<>>
  /\ out = NoReply
  /\ probe = NoProbe

\* bot.on('text') for a text sent at a yes/no question.
ValidatorText(id, raw) ==
  /\ Has(id)
  /\ states[id].index < N
  /\ QUESTIONS[states[id].index + 1].type = YesNo
  /\ Handle(onText(id, raw))

ValidatorNext == \E id \in Identities : \E raw \in Inputs : ValidatorText(id, raw)

ValidatorSpec == ValidatorInit /\ [][ValidatorNext]_vars

\* ------------------------------------------------------------- claims

Listed(id) == \E i \in DOMAIN allowedIds : allowedIds[i] = id

Unchanged(r) == r.states = states /\ r.tasks = tasks

\* The session a begin of user id must leave: cursor 0 and the two seed
\* fields, the display name being the username or the empty string.
IsFresh(session, id) ==
  /\ session.index = 0
  /\ DOMAIN session.answers = {"telegram_id", "username"}
  /\ session.answers.telegram_id = id
  /\ session.answers.username = (IF id = 1 THEN <<"a", "l", "i">> ELSE <<>>)

\* The current question of user id is a yes/no question.
AtYesNo(id) ==
  /\ Has(id)
  /\ states[id].index < N
  /\ QUESTIONS[states[id].index + 1].type = YesNo

InTokenSets(raw) == toLowerCase(trim(raw)) \in (yes \cup no)

\* The value the flow must record for the k-th question when the user sent raw.
Expected(k, raw) ==
  IF QUESTIONS[k].type = YesNo
  THEN (IF toLowerCase(trim(raw)) \in yes THEN YES ELSE NO)
  ELSE trim(raw)

\* The answers of a session are the seed fields and, for each of the first
\* Len(sent) questions, the value of the text sent for it.
Recorded(session, id) ==
  /\ session.index = Len(session.sent)
  /\ session.index <= N
  /\ DOMAIN session.answers = {"telegram_id", "username"} \cup Keys(session.index)
  /\ session.answers.telegram_id = id
  /\ session.answers.username = (IF id = 1 THEN <<"a", "l", "i">> ELSE <<>>)
  /\ \A k \in 1..session.index :
       session.answers[QUESTIONS[k].key] = Expected(k, session.sent[k])

\* C1: a user who begins and then sends N valid answers gets, for each of
\* the first N-1, the prompt of the next question, and the N-th starts one
\* appendToGoogleSheet call on a record that maps every key to the value
\* sent for it, plus the seed fields. Stated on every state of a flow: the
\* session holds what was sent so far; the next valid answer is answered
\* with the next prompt or, if it is the last, suspends exactly one new
\* handler on that session; and until the user's next message nothing takes
\* the session away: no suspended handler, resumed, removes or changes it.
C1_ValidAnswersCompleteTheFlow ==
  \A id \in Identities :
    Has(id) =>
      /\ Recorded(states[id], id)
      /\ states[id].index < N =>
           /\ \A raw \in TextsOf(id) :
                (QUESTIONS[states[id].index + 1].type = YesNo => InTokenSets(raw))
                => LET r == onText(id, raw)
                       k == states[id].index + 1
                   IN  /\ id \in DOMAIN r.states
                       /\ r.states[id].index = k
                       /\ r.states[id].sent = Append(states[id].sent, raw)
                       /\ Recorded(r.states[id], id)
                       /\ k < N => r.out = Reply(id, QUESTIONS[k + 1].prompt) /\ r.tasks = tasks
                       /\ k = N =>
                            /\ Cardinality(r.tasks \ tasks) = 1
                            /\ \A t \in r.tasks \ tasks : t.id = id /\ t.alias /\ t.pc = "meta"
           /\ \A t \in tasks :
                t.pc = "delete" =>
                  /\ id \in DOMAIN onDelete(t).states
                  /\ onDelete(t).states[id] = states[id]

\* C2: when the current question is a yes/no question and the text is in
\* neither token set (after trimming and case-folding), the text handler
\* replies with the retry prompt and changes nothing: the Map and every
\* session in it are as before, and no handler is suspended. The state being
\* the same, this holds again for the next rejected text, at every cursor.
C2_RejectedAnswerKeepsSession ==
  \A id \in Identities : \A raw \in TextsOf(id) :
    (AtYesNo(id) /\ ~InTokenSets(raw))
    => (onText(id, raw).out = Reply(id, RetryYesNo) /\ Unchanged(onText(id, raw)))

\* A rejected text was just answered with the retry prompt, the user still
\* at the yes/no question.
C2_Witness ==
  \E id \in Identities : AtYesNo(id) /\ out = Reply(id, RetryYesNo)

\* C3: /start or /new of an authorized user, in any state, leaves a session
\* of that user with cursor 0 and only the two seed fields, and replies with
\* the introduction followed by the first question's prompt.
C3_BeginResets ==
  \A id \in Identities :
    (Len(allowedIds) = 0 \/ Listed(id)) =>
      \A r \in {onStart(id), onNew(id)} :
        /\ id \in DOMAIN r.states
        /\ IsFresh(r.states[id], id)
        /\ r.out = Reply(id, <<"intro_new_case", "\n", "\n">> \o QUESTIONS[1].prompt)

\* A begin was just answered while a handler still holds the user's earlier,
\* completed session: the begin replaced a session with prior progress.
C3_Witness ==
  \E id \in Identities :
    /\ out = Reply(id, IntroPrompt)
    /\ Has(id) /\ states[id].index = 0
    /\ \E t \in tasks : t.id = id /\ ~t.alias /\ t.obj.index = N

\* C4: a text message of a user without a session gets no reply and changes
\* nothing: no session is created, every other session is as before, and no
\* handler is suspended on a spreadsheet call because of it.
C4_TextWithoutSessionIgnored ==
  \A id \in Identities : \A raw \in TextsOf(id) :
    ~Has(id) => (onText(id, raw).out = Silent(id) /\ Unchanged(onText(id, raw)))

\* The handler of a text of a user without a session just returned silently,
\* while another user is in a flow.
C4_Witness ==
  \E id \in Identities :
    /\ ~Has(id)
    /\ out = Silent(id)
    /\ \E other \in Identities \ {id} : Has(other)

C7_Cancel ==
  \A id \in Identities :
    LET r == onCancel(id)
    IN  /\ Has(id) =>
             /\ r.out = Reply(id, Canceled)
             /\ DOMAIN r.states = DOMAIN states \ {id}
             /\ \A other \in DOMAIN r.states : r.states[other] = states[other]
        /\ ~Has(id) => (r.out = Reply(id, NothingToCancel) /\ Unchanged(r))
        /\ out = Reply(id, Canceled) =>
             /\ ~Has(id)
             /\ \A raw \in TextsOf(id) :
                  onText(id, raw).out = Silent(id) /\ Unchanged(onText(id, raw))

\* A cancel just removed the session of a user.
C7_Witness ==
  \E id \in Identities : out = Reply(id, Canceled) /\ ~Has(id)

\* C8: with a non-empty allow-list, /start, /new and /export of a user not
\* on it are answered with the refusal only and change nothing, so no
\* session, no suspended handler and no row of such a user exists in any
\* state; with an empty allow-list every user's begin creates a session;
\* /whoami is answered for every user and changes nothing.
C8_AllowList ==
  \A id \in Identities :
    /\ (Len(allowedIds) > 0 /\ ~Listed(id)) =>
         /\ ~Has(id)
         /\ \A t \in tasks : t.id # id
         /\ \A i \in 1..Len(rows) : rows[i][2] # <<ToString(id)>>
         /\ \A r \in {onStart(id), onNew(id)} :
              r.out = Reply(id, NotAllowedToAdd) /\ Unchanged(r)
         /\ onExport(id).out = Reply(id, NotAllowed) /\ Unchanged(onExport(id))
    /\ Len(allowedIds) = 0 =>
         \A r \in {onStart(id), onNew(id)} :
           id \in DOMAIN r.states /\ r.out.msg # NotAllowedToAdd
    /\ onWhoami(id).out = Reply(id, <<"your_telegram_id_is", ToString(id)>>)
    /\ Unchanged(onWhoami(id))

\* A user who is not on a non-empty allow-list was just refused, while the
\* listed user is in a flow.
C8_Witness ==
  /\ Len(allowedIds) > 0
  /\ \E id \in Identities : ~Listed(id) /\ out = Reply(id, NotAllowedToAdd)
  /\ \E id \in Identities : Listed(id) /\ Has(id)

C9_SecondEnsureChangesNothing ==
  probe.call = 2 =>
    /\ Sheet = probe.between
    /\ \A t \in tasks :
         /\ t.pc \notin {"addSheet", "headerUpdate"}
         /\ t.pc = "meta" => sheetsGet(t, TRUE).task.pc = "headerGet"
         /\ t.pc = "headerGet" => headerGet(t, TRUE).task.pc = "append"

\* The second call returned, after a first call that created the tab and
\* wrote the header.
C9_Witness ==
  /\ probe.call = 2
  /\ ~probe.before.tabExists
  /\ probe.between = [tabExists |-> TRUE, rows |-> <<headers>>]
  /\ \E t \in tasks : t.pc = "append"

Row1Empty == rows = <<>> \/ rows[1] = <<>>

\* C10: a header write only ever lands on a tab whose row 1 is empty: in
\* every state where a handler awaits values.update of A1 (the write takes
\* effect at its next step), row 1 holds nothing.
C10_HeaderWriteOnlyOnEmptyRow ==
  \A t \in tasks : t.pc = "headerUpdate" => Row1Empty

\* The rows of rs that are not the header row.
DataRowsOf(rs) == Cardinality({i \in 1..Len(rs) : rs[i] # headers})

\* C11: a values.append that returns adds the handler's row as one new row
\* below the rows there are and leaves every row there as it was, also when
\* an equal row is there already; an append that throws and every other
\* spreadsheet call leave the data rows alone; so over every step the number
\* of data rows grows by one exactly when the step is an append that
\* returned, and stays the same otherwise.
C11_AppendAddsOneRow ==
  /\ [](\A t \in tasks :
          /\ t.pc = "append" =>
               /\ valuesAppend(t, TRUE).rows = rows \o <<t.row>>
               /\ t.row # headers
               /\ valuesAppend(t, FALSE).rows = rows
          /\ t.pc = "headerUpdate" =>
               \A ok \in BOOLEAN :
                 /\ Len(headerUpdate(t, ok).rows) >= Len(rows)
                 /\ \A i \in 1..Len(rows) :
                      rows[i] # headers => headerUpdate(t, ok).rows[i] = rows[i]
                 /\ DataRowsOf(headerUpdate(t, ok).rows) = DataRows)
  /\ [][ DataRows' = DataRows +
           (IF \E t \in tasks : ValuesAppend(t, TRUE) THEN 1 ELSE 0) ]_vars

\* Two submissions with equal records were both appended: two equal data
\* rows, one below the other.
C11_Witness ==
  \E i, j \in 1..Len(rows) :
    i < j /\ rows[i] = rows[j] /\ rows[i] # headers

\* The header row of the layout: the three metadata labels, then the label
\* of each question in catalog order, its prompt without the final colon.
IsHeaderRow(row) ==
  /\ Len(row) = 3 + N
  /\ row[1] = <<"label_datetime_utc">>
  /\ row[2] = <<"label_telegram_id">>
  /\ row[3] = <<"label_username">>
  /\ \A k \in 1..N :
       /\ row[3 + k] \o <<":">> = QUESTIONS[k].prompt
       /\ row[3 + k] # QUESTIONS[k].prompt

\* A row of a submission: timestamp, user id, username, one cell per question.
IsDataRow(row) ==
  /\ Len(row) = 3 + N
  /\ row[1] = <<"iso_now">>
  /\ \E id \in Identities : row[2] = <<ToString(id)>>

\* C12: from a spreadsheet without the tab or with an empty tab, in every
\* state: the tab's rows, if any, are the header in row 1 and data rows
\* below it, and rows exist only in an existing tab; an append only runs
\* against a tab whose row 1 holds the header, so its row goes below row 1;
\* and a header write puts the header into row 1 and leaves every row below
\* row 1 as it was, so it never lands on a data row.
C12_HeaderAboveDataRows ==
  /\ rows # <<>> =>
       /\ tabExists
       /\ IsHeaderRow(rows[1])
       /\ \A i \in 2..Len(rows) : IsDataRow(rows[i])
  /\ \A t \in tasks :
       /\ t.pc = "append" =>
            /\ rows # <<>> /\ IsHeaderRow(rows[1])
            /\ IsDataRow(t.row)
            /\ valuesAppend(t, TRUE).rows[1] = rows[1]
            /\ valuesAppend(t, TRUE).rows[Len(rows) + 1] = t.row
       /\ t.pc = "headerUpdate" =>
            /\ tabExists
            /\ IsHeaderRow(headerUpdate(t, TRUE).rows[1])
            /\ Len(headerUpdate(t, TRUE).rows) = (IF rows = <<>> THEN 1 ELSE Len(rows))
            /\ \A i \in 2..Len(rows) : headerUpdate(t, TRUE).rows[i] = rows[i]

\* Submissions of both users were appended, below the header, in a tab the
\* bot created.
C12_Witness ==
  /\ Len(rows) = 3 /\ IsHeaderRow(rows[1])
  /\ \E i, j \in 2..3 : rows[i][2] = <<"1">> /\ rows[j][2] = <<"2">>

\* The yes/no questions a session has answered hold a canonical value.
CanonicalAnswers(session) ==
  \A k \in 1..session.index :
    QUESTIONS[k].type = YesNo =>
      /\ session.answers[QUESTIONS[k].key] \in {YES, NO}
      /\ session.answers[QUESTIONS[k].key] = YES <=>
           \E token \in yes : session.sent[k] \in Forms(token)

\* C13: the affirmative and the negative token set are disjoint and hold
\* the canonical values, which the validator maps to themselves; a token
\* typed in small or capital letters, with or without white space around
\* it, is accepted, and the handler stores the canonical affirmative value
\* for an affirmative token and the canonical negative value for a negative
\* one and moves to the next question; every other text, "maybe" and the
\* empty text among them, is rejected: the retry reply, the session as it
\* was.
C13_YesNoValidator ==
  /\ yes \cap no = {}
  /\ YES \in yes /\ NO \in no /\ YES # NO
  /\ normalizeYesNo(YES) = true /\ normalizeYesNo(NO) = false
  /\ \A token \in yes : \A raw \in Forms(token) : normalizeYesNo(raw) = true
  /\ \A token \in no : \A raw \in Forms(token) : normalizeYesNo(raw) = false
  /\ \A raw \in Others : normalizeYesNo(raw) = null
  /\ \A id \in Identities :
       /\ Has(id) => CanonicalAnswers(states[id])
       /\ AtYesNo(id) =>
            LET k == states[id].index + 1
            IN  /\ \A token \in yes : \A raw \in Forms(token) :
                     /\ onText(id, raw).states[id].index = k
                     /\ onText(id, raw).states[id].answers[QUESTIONS[k].key] = YES
                /\ \A token \in no : \A raw \in Forms(token) :
                     /\ onText(id, raw).states[id].index = k
                     /\ onText(id, raw).states[id].answers[QUESTIONS[k].key] = NO
                /\ \A raw \in Others :
                     /\ onText(id, raw).out = Reply(id, RetryYesNo)
                     /\ onText(id, raw).states = states

\* A token typed in capitals between white space was accepted and stored as
\* the canonical affirmative value.
C13_Witness ==
  \E id \in Identities :
    /\ Has(id) /\ states[id].index = FirstYesNo
    /\ states[id].sent[FirstYesNo] = <<"\t", "N", "A", "3", "A", "M", "\n">>
    /\ states[id].answers[QUESTIONS[FirstYesNo].key] = YES

\* The handler t is inside appendToGoogleSheet: one of its calls is awaited.
InSink(t) == t.pc \in {"meta", "addSheet", "headerGet", "headerUpdate", "append"}

\* C14: while a spreadsheet call for a user's completed record is awaited,
\* the store holds no session of that user with cursor N: the session was
\* deleted when the last answer was accepted, before appendToGoogleSheet.
C14_DeletedBeforeSink ==
  \A t \in tasks :
    InSink(t) => ~(Has(t.id) /\ states[t.id].index = N)

\* C15: every session in the store has a cursor from 0 to N and answers
\* that are the two seed entries and one entry for each of the first cursor
\* catalog keys, none for a later key; a text that arrives while the
\* session's record is being written leaves the store as it is.
C15_CursorAndAnswers ==
  \A id \in Identities :
    Has(id) =>
      /\ states[id].index \in 0..N
      /\ DOMAIN states[id].answers =
           {"telegram_id", "username"} \cup {QUESTIONS[k].key : k \in 1..states[id].index}
      /\ \A k \in (states[id].index + 1)..N :
           QUESTIONS[k].key \notin DOMAIN states[id].answers
      /\ states[id].index = N =>
           \A raw \in TextsOf(id) : onText(id, raw).states = states

\* A text of a user arrived while the record of the user's completed session
\* was being written, the session still in the store.
C15_Witness ==
  \E id \in Identities :
    /\ out = Threw(id, "TypeError")
    /\ Has(id) /\ states[id].index = N
    /\ \E t \in tasks : t.id = id /\ t.alias /\ InSink(t)

\* C16: the states.delete a completion handler is about to run removes that
\* handler's own session only: whenever a handler has reached its
\* states.delete and the store holds a session of its user, that session is
\* the one the handler completed, not one a later begin created.
C16_OnlyOwnSessionRemoved ==
  \A t \in tasks :
    (t.pc = "delete" /\ Has(t.id)) =>
      /\ t.alias
      /\ MapDelete(states, t.id) = onDelete(t).states

\* The handler that will be handler t after a message handled with result r.
Continues(t, r) ==
  \E u \in r.tasks :
    /\ u.id = t.id /\ u.n = t.n
    /\ u.pc = t.pc /\ u.row = t.row /\ u.wrote = t.wrote /\ u.err = t.err
    /\ (IF u.alias THEN r.states[u.id] ELSE u.obj) = StateOf(t)

\* C17: every handler suspended after a last answer holds a completed
\* session (cursor N, every answer as sent), at most one handler holds the
\* session that is in the store, and the row a handler appends is the row of
\* that session's answers; /start, /new, /cancel and texts of the same user
\* that arrive meanwhile start no further handler and leave the handler, its
\* session and its row as they are; a handler appends at most once.
C17_HandedToSinkOnce ==
  /\ \A id \in Identities :
       /\ Cardinality({t \in tasks : t.id = id /\ t.alias}) <= 1
       /\ (Has(id) /\ states[id].index = N) =>
            Cardinality({t \in tasks : t.id = id /\ t.alias}) = 1
  /\ \A t \in tasks :
       /\ StateOf(t).index = N
       /\ Recorded(StateOf(t), t.id)
       /\ t.row # <<>> => t.row = RowOf(StateOf(t).answers)
       /\ t.pc = "headerGet" /\ tabExists /\ hasHeader(HeaderRes(rows)) =>
            headerGet(t, TRUE).task.row = RowOf(StateOf(t).answers)
       /\ t.pc = "headerUpdate" /\ tabExists =>
            headerUpdate(t, TRUE).task.row = RowOf(StateOf(t).answers)
       /\ t.wrote <=> t.pc \in {"replyOk"} \/ (t.pc = "delete" /\ t.sent = "ok")
       /\ \A r \in {onStart(t.id), onNew(t.id), onCancel(t.id)}
                   \cup {onText(t.id, raw) : raw \in TextsOf(t.id)} :
            /\ Continues(t, r)
            /\ Cardinality(r.tasks) # Cardinality(tasks) =>
                 \* the last answer of a later session of the user
                 /\ ~t.alias
                 /\ Has(t.id) /\ states[t.id].index = N - 1
                 /\ Cardinality(r.tasks) = Cardinality(tasks) + 1

\* A /start or /new of the user arrived while the record was being written,
\* and the row appended is the row of the completed session.
C17_Witness ==
  \E t \in tasks :
    /\ ~t.alias /\ t.wrote
    /\ Has(t.id) /\ states[t.id].index = 0
    /\ t.row = RowOf(t.obj.answers)
    /\ \E i \in 1..Len(rows) : rows[i] = t.row

\* C18: a create-tab request that finds the tab already created (by the
\* request of another submission that also saw the tab absent) is rejected:
\* the tab stays the one tab, no row is touched, and the handler goes to its
\* catch block, whatever the service answers; a handler that failed has
\* appended nothing and will append nothing, sends the failure message to
\* its user and then deletes the user's session; and the handler of the
\* other submission goes on to its header check and its append.
C18_DuplicateTabRequestFails ==
  \A t \in tasks :
    /\ t.pc = "addSheet" =>
         /\ tabExists =>
              \A ok \in BOOLEAN :
                /\ addSheet(t, ok).task = Caught(t)
                /\ addSheet(t, ok).tabExists
                /\ addSheet(t, ok).rows = rows
         /\ ~tabExists =>
              /\ addSheet(t, TRUE).tabExists
              /\ addSheet(t, TRUE).task = [t EXCEPT !.pc = "headerGet"]
    /\ t.err =>
         /\ ~t.wrote
         /\ t.pc \in {"replyFail", "delete"}
         /\ t.pc = "replyFail" => replyOutcome(t).out = Reply(t.id, SaveFailed)
         /\ t.pc = "delete" => (t.sent = "fail" /\ t.id \notin DOMAIN onDelete(t).states)
    /\ (~t.err /\ tabExists) =>
         /\ t.pc = "headerGet" => headerGet(t, TRUE).task.pc \in {"headerUpdate", "append"}
         /\ t.pc = "headerUpdate" => headerUpdate(t, TRUE).task.pc = "append"
         /\ t.pc = "append" =>
              /\ valuesAppend(t, TRUE).task.pc = "replyOk"
              /\ valuesAppend(t, TRUE).rows = rows \o <<t.row>>

\* Two submissions of different users both saw the tab absent; the create
\* request of one has made the tab, the create request of the other is
\* awaited.
C18_Witness ==
  \E t1, t2 \in tasks :
    /\ t1.id # t2.id
    /\ tabExists
    /\ t1.pc = "headerGet" /\ ~t1.err
    /\ t2.pc = "addSheet"

\* C19: a /cancel of a user whose completed record is being written removes
\* the user's session from the store and replies "canceled", and leaves the
\* suspended handler, its record and the spreadsheet as they are; a handler
\* whose session is no longer in the store runs on as any other: its calls
\* returning, it appends the row of its record and sends the success
\* message to its user.
C19_CancelDoesNotAbortSink ==
  \A t \in tasks :
    /\ (t.alias /\ t.pc # "delete") =>
         /\ onCancel(t.id).out = Reply(t.id, Canceled)
         /\ t.id \notin DOMAIN onCancel(t.id).states
         /\ [t EXCEPT !.alias = FALSE, !.obj = states[t.id]] \in onCancel(t.id).tasks
         /\ Cardinality(onCancel(t.id).tasks) = Cardinality(tasks)
    /\ ~t.alias =>
         /\ t.obj.index = N
         /\ (t.pc = "meta" /\ tabExists) => sheetsGet(t, TRUE).task.pc = "headerGet"
         /\ (t.pc = "headerGet" /\ hasHeader(HeaderRes(rows))) =>
              headerGet(t, TRUE).task = [t EXCEPT !.pc = "append", !.row = RowOf(t.obj.answers)]
         /\ t.pc = "headerUpdate" =>
              headerUpdate(t, TRUE).task = [t EXCEPT !.pc = "append", !.row = RowOf(t.obj.answers)]
         /\ t.pc = "append" =>
              /\ t.row = RowOf(t.obj.answers)
              /\ valuesAppend(t, TRUE).rows = rows \o <<t.row>>
              /\ valuesAppend(t, TRUE).task.pc = "replyOk"
         /\ t.pc = "replyOk" => replyOutcome(t).out = Reply(t.id, SavedOk)
         /\ t.pc = "replyFail" => replyOutcome(t).out = Reply(t.id, SaveFailed)

\* The success message of a submission was just sent to a user who had
\* cancelled while the record was being written: the row is in the tab, the
\* user has no session.
C19_Witness ==
  \E t \in tasks :
    /\ ~t.alias /\ ~Has(t.id)
    /\ t.pc = "delete" /\ t.sent = "ok"
    /\ out = Reply(t.id, SavedOk)
    /\ \E i \in 1..Len(rows) : rows[i] = t.row

\* What handling a message with result r leaves of user b: the session and
\* the suspended handlers.
SameFor(b, m, ts) ==
  /\ (b \in DOMAIN m) = Has(b)
  /\ Has(b) => m[b] = states[b]
  /\ {t \in ts : t.id = b} = {t \in tasks : t.id = b}

\* C20: whatever a user a sends (/start, /new, /cancel, /whoami, /export, a
\* text that is accepted, rejected or the last answer) and whatever a
\* suspended handler of a does when it resumes (a call returning or
\* throwing, the outcome reply, states.delete), the session of every other
\* user b is present or absent as before, with the same cursor and answers,
\* and b's suspended handlers are as before. The store is keyed by user id.
C20_IdentitiesIndependent ==
  \A a \in Identities : \A b \in Identities \ {a} :
    /\ \A r \in {onStart(a), onNew(a), onCancel(a), onWhoami(a), onExport(a)}
                \cup {onText(a, raw) : raw \in TextsOf(a)} :
         SameFor(b, r.states, r.tasks)
    /\ \A t \in tasks :
         t.id = a =>
           /\ t.pc = "delete" => SameFor(b, onDelete(t).states, onDelete(t).tasks)
           /\ \A r \in {sheetsGet(t, TRUE), sheetsGet(t, FALSE), replyOutcome(t)} :
                r.task.id = a /\ r.task.n = t.n

\* User b answered a question while a handler of user a was suspended on a
\* spreadsheet call, and a's completed session is still in the store.
C20_Witness ==
  \E a \in Identities : \E b \in Identities \ {a} :
    /\ \E t \in tasks : t.id = a /\ t.alias /\ t.pc = "headerGet"
    /\ Has(a) /\ states[a].index = N
    /\ Has(b) /\ states[b].index = 1
    /\ out = Reply(b, QUESTIONS[2].prompt)

====
